---- MODULE Spec2Model ----
(***************************************************************************)
(* Workstream / dependency-graph engine of soltra.                         *)
(*                                                                         *)
(* The stored state is two JSON files: tasks.json (the set of task uuids   *)
(* matters here) and workstreams.json (an ordered list of workstreams,     *)
(* each with an ordered task list and an ordered dependency list).         *)
(* Every service function loads the whole list, changes its copy and       *)
(* stores the whole list again.                                            *)
(***************************************************************************)
EXTENDS Integers, Sequences, FiniteSets, TLC

\* ------------------------------------------------------------------ bounds
MaxWs == 2          \* workstreams kept in the store at the same time
MaxDeps == 2        \* dependencies kept in one workstream

TaskIds == {"A", "B", "C"}
MaxProcs == 2       \* operations in flight at the same time
MaxCalls == 3       \* operations started in one asynchronous run
MaxGraphDeps == 4   \* dependencies of the workstream the graph queries run on
MaxLayoutNodes == 5 \* nodes handed to the layout
MaxLayoutEdges == 3 \* edges handed to the layout
MaxRenderNodes == 3 \* nodes handed to a layout call that is repeated
MaxRenderEdges == 2 \* edges handed to a layout call that is repeated

WsIds == 1 .. (MaxWs + 1)               \* uuids passed as arguments
UuidPool == 1 .. (MaxWs + MaxProcs)     \* uuids crypto.randomUUID() draws from
ProcIds == 1 .. MaxProcs
DependencyType == {"blocks", "related"}
DefaultType == "blocks"
NoWs == 0

VARIABLES
    tasks,        \* tasks.json: the uuids of the stored tasks
    workstreams,  \* workstreams.json: the stored list of workstreams
    prev,         \* the stored list before the last operation began
    last,         \* the last operation, its arguments and its outcome
    procs,        \* operations in flight (asynchronous specification only)
    view          \* the graph view: the layout's input and what it returned

vars == <<tasks, workstreams, prev, last, procs, view>>

\* ------------------------------------------------------------- list helpers
Range(s) == {s[i] : i \in 1 .. Len(s)}

Includes(s, x) == \E i \in 1 .. Len(s) : s[i] = x

\* Array.prototype.splice(indexOf(x), 1): removes the first occurrence only
SpliceFirst(s, x) ==
    IF ~Includes(s, x) THEN s
    ELSE LET i == CHOOSE k \in 1 .. Len(s) :
                      s[k] = x /\ \A j \in 1 .. (k - 1) : s[j] # x
         IN  SubSeq(s, 1, i - 1) \o SubSeq(s, i + 1, Len(s))

\* Array.prototype.find: the first of the matching indices, 0 when there is none
FirstIndex(I) == IF I = {} THEN 0 ELSE CHOOSE i \in I : \A j \in I : i <= j

\* Array.prototype.indexOf, counted from 1 (0 when x is absent)
Position(s, x) == FirstIndex({k \in 1 .. Len(s) : s[k] = x})

FindByUuid(ws, uuid) == FirstIndex({i \in 1 .. Len(ws) : ws[i].uuid = uuid})

FindByTask(ws, t) == FirstIndex({i \in 1 .. Len(ws) : Includes(ws[i].tasks, t)})

Dep(from, to, type) == [fromTaskUuid |-> from, toTaskUuid |-> to, type |-> type]

Touches(dep, t) == dep.fromTaskUuid = t \/ dep.toTaskUuid = t

SamePair(dep, from, to) == dep.fromTaskUuid = from /\ dep.toTaskUuid = to

\* ------------------------------------------------------------------ storage
\* crypto.randomUUID(): an identifier no stored workstream and no operation holds
FreshUuid(ws, held) ==
    CHOOSE u \in UuidPool :
        /\ u \notin ({ws[i].uuid : i \in 1 .. Len(ws)} \cup held)
        /\ \A v \in UuidPool :
              v \notin ({ws[i].uuid : i \in 1 .. Len(ws)} \cup held) => u <= v

NewWorkstream(uuid, title, description) ==
    [uuid |-> uuid, title |-> title, description |-> description,
     tasks |-> <<>>, dependencies |-> <<>>]

\* workstreams.json as getFileHandle(create: true) makes it: no text, readFile
\* returns null
EmptyFile == [blank |-> TRUE, workstreams |-> <<>>]

\* the text JSON.stringify({ workstreams: array }, null, 2) writes, as the
\* document it denotes
JsonDocument(array) == [blank |-> FALSE, workstreams |-> array]

\* mutant: the description is not written
storeWorkstreams_NoDescription(ws) ==
    JsonDocument([i \in 1 .. Len(ws) |->
        [uuid |-> ws[i].uuid, title |-> ws[i].title, description |-> "",
         tasks |-> ws[i].tasks, dependencies |-> ws[i].dependencies]])

\* storeWorkstreams: the five fields of every workstream, in list order
storeWorkstreams(ws) ==
    JsonDocument([i \in 1 .. Len(ws) |->
        [uuid |-> ws[i].uuid, title |-> ws[i].title,
         description |-> ws[i].description,
         tasks |-> ws[i].tasks, dependencies |-> ws[i].dependencies]])

\* loadWorkstreams on a file storeWorkstreams wrote (the array format; the
\* legacy object format is never written): [] for a blank file, else the
\* array mapped field by field, description || ""
loadWorkstreams(file) ==
    IF file.blank THEN <<>>
    ELSE [i \in 1 .. Len(file.workstreams) |->
            LET o == file.workstreams[i] IN
            [uuid |-> o.uuid, title |-> o.title,
             description |-> IF o.description = "" THEN "" ELSE o.description,
             tasks |-> o.tasks, dependencies |-> o.dependencies]]

\* mutant: the new workstream is put first
addWorkstream_Unshift(ws, w) == <<w>> \o ws

\* addWorkstream: load, push, store
addWorkstream(ws, w) == Append(ws, w)

\* ------------------------------------------------------------- the service
\* the outcome of a service call: the error thrown ("none" when it returns),
\* the list it holds at its end, and whether it reached storeWorkstreams
Ok(ws) == [err |-> "none", other |-> NoWs, ws |-> ws, wrote |-> TRUE]
Unchanged(ws) == [err |-> "none", other |-> NoWs, ws |-> ws, wrote |-> FALSE]
Fail(e, ws) == [err |-> e, other |-> NoWs, ws |-> ws, wrote |-> FALSE]

\* mutant: only the first workstream is validated
validateWorkstreamTaskReferences_FirstOnly(ws, tks) ==
    \A i \in 1 .. Len(ws) :
        i = 1 =>
        /\ \A k \in 1 .. Len(ws[i].tasks) : ws[i].tasks[k] \in tks
        /\ \A k \in 1 .. Len(ws[i].dependencies) :
              /\ ws[i].dependencies[k].fromTaskUuid \in tks
              /\ ws[i].dependencies[k].toTaskUuid \in tks

\* validateWorkstreamTaskReferences: TRUE when it does not throw
validateWorkstreamTaskReferences(ws, tks) ==
    \A i \in 1 .. Len(ws) :
        /\ \A k \in 1 .. Len(ws[i].tasks) : ws[i].tasks[k] \in tks
        /\ \A k \in 1 .. Len(ws[i].dependencies) :
              /\ ws[i].dependencies[k].fromTaskUuid \in tks
              /\ ws[i].dependencies[k].toTaskUuid \in tks

\* mutant: the other-workstream check is left out
addTaskToWorkstream_NoOwnerCheck(ws, tks, uuid, t) ==
    LET i == FindByUuid(ws, uuid) IN
    IF ~validateWorkstreamTaskReferences(ws, tks) THEN Fail("DanglingReference", ws)
    ELSE IF i = 0 THEN Fail("WorkstreamNotFound", ws)
    ELSE IF ~Includes(ws[i].tasks, t)
         THEN Ok([ws EXCEPT ![i].tasks = Append(@, t)])
         ELSE Unchanged(ws)

\* mutant: the task is pushed even when it is already a member
addTaskToWorkstream_AlwaysPush(ws, tks, uuid, t) ==
    LET i == FindByUuid(ws, uuid)
        j == FirstIndex({k \in 1 .. Len(ws) :
                            ws[k].uuid # uuid /\ Includes(ws[k].tasks, t)})
    IN
    IF ~validateWorkstreamTaskReferences(ws, tks) THEN Fail("DanglingReference", ws)
    ELSE IF i = 0 THEN Fail("WorkstreamNotFound", ws)
    ELSE IF j # 0
         THEN [err |-> "TaskAlreadyInOtherWorkstream", other |-> ws[j].uuid,
               ws |-> ws, wrote |-> FALSE]
    ELSE Ok([ws EXCEPT ![i].tasks = Append(@, t)])

addTaskToWorkstream(ws, tks, uuid, t) ==
    LET i == FindByUuid(ws, uuid)
        j == FirstIndex({k \in 1 .. Len(ws) :
                            ws[k].uuid # uuid /\ Includes(ws[k].tasks, t)})
    IN
    IF ~validateWorkstreamTaskReferences(ws, tks) THEN Fail("DanglingReference", ws)
    ELSE IF i = 0 THEN Fail("WorkstreamNotFound", ws)
    ELSE IF j # 0
         THEN [err |-> "TaskAlreadyInOtherWorkstream", other |-> ws[j].uuid,
               ws |-> ws, wrote |-> FALSE]
    ELSE IF ~Includes(ws[i].tasks, t)
         THEN Ok([ws EXCEPT ![i].tasks = Append(@, t)])
         ELSE Unchanged(ws)

\* mutant: only the dependencies leaving the task are removed
removeTaskFromWorkstream_FromOnly(ws, tks, uuid, t) ==
    LET i == FindByUuid(ws, uuid) IN
    IF ~validateWorkstreamTaskReferences(ws, tks) THEN Fail("DanglingReference", ws)
    ELSE IF i = 0 THEN Fail("WorkstreamNotFound", ws)
    ELSE Ok([ws EXCEPT ![i].tasks = SelectSeq(@, LAMBDA x : x # t),
                       ![i].dependencies = SelectSeq(@, LAMBDA d : d.fromTaskUuid # t)])

\* mutant: the dependency cascade is left out
removeTaskFromWorkstream_KeepDeps(ws, tks, uuid, t) ==
    LET i == FindByUuid(ws, uuid) IN
    IF ~validateWorkstreamTaskReferences(ws, tks) THEN Fail("DanglingReference", ws)
    ELSE IF i = 0 THEN Fail("WorkstreamNotFound", ws)
    ELSE Ok([ws EXCEPT ![i].tasks = SelectSeq(@, LAMBDA x : x # t)])

removeTaskFromWorkstream(ws, tks, uuid, t) ==
    LET i == FindByUuid(ws, uuid) IN
    IF ~validateWorkstreamTaskReferences(ws, tks) THEN Fail("DanglingReference", ws)
    ELSE IF i = 0 THEN Fail("WorkstreamNotFound", ws)
    ELSE Ok([ws EXCEPT ![i].tasks = SelectSeq(@, LAMBDA x : x # t),
                       ![i].dependencies = SelectSeq(@, LAMBDA d : ~Touches(d, t))])

\* mutant: the type argument is dropped and the default stored
addDependency_DefaultType(ws, tks, uuid, from, to, type) ==
    LET i == FindByUuid(ws, uuid) IN
    IF ~validateWorkstreamTaskReferences(ws, tks) THEN Fail("DanglingReference", ws)
    ELSE IF i = 0 THEN Fail("WorkstreamNotFound", ws)
    ELSE IF ~Includes(ws[i].tasks, from) THEN Fail("TaskNotInWorkstream", ws)
    ELSE IF ~Includes(ws[i].tasks, to) THEN Fail("TaskNotInWorkstream", ws)
    ELSE IF ~\E k \in 1 .. Len(ws[i].dependencies) :
                 SamePair(ws[i].dependencies[k], from, to)
         THEN Ok([ws EXCEPT ![i].dependencies = Append(@, Dep(from, to, DefaultType))])
         ELSE Unchanged(ws)

\* mutant: only the source is checked for membership
addDependency_SourceOnlyChecked(ws, tks, uuid, from, to, type) ==
    LET i == FindByUuid(ws, uuid) IN
    IF ~validateWorkstreamTaskReferences(ws, tks) THEN Fail("DanglingReference", ws)
    ELSE IF i = 0 THEN Fail("WorkstreamNotFound", ws)
    ELSE IF ~Includes(ws[i].tasks, from) THEN Fail("TaskNotInWorkstream", ws)
    ELSE IF ~\E k \in 1 .. Len(ws[i].dependencies) :
                 SamePair(ws[i].dependencies[k], from, to)
         THEN Ok([ws EXCEPT ![i].dependencies = Append(@, Dep(from, to, type))])
         ELSE Unchanged(ws)

\* mutant: an existing dependency counts only when its type is the same
addDependency_TypeInKey(ws, tks, uuid, from, to, type) ==
    LET i == FindByUuid(ws, uuid) IN
    IF ~validateWorkstreamTaskReferences(ws, tks) THEN Fail("DanglingReference", ws)
    ELSE IF i = 0 THEN Fail("WorkstreamNotFound", ws)
    ELSE IF ~Includes(ws[i].tasks, from) THEN Fail("TaskNotInWorkstream", ws)
    ELSE IF ~Includes(ws[i].tasks, to) THEN Fail("TaskNotInWorkstream", ws)
    ELSE IF ~\E k \in 1 .. Len(ws[i].dependencies) :
                 /\ SamePair(ws[i].dependencies[k], from, to)
                 /\ ws[i].dependencies[k].type = type
         THEN Ok([ws EXCEPT ![i].dependencies = Append(@, Dep(from, to, type))])
         ELSE Unchanged(ws)

addDependency(ws, tks, uuid, from, to, type) ==
    LET i == FindByUuid(ws, uuid) IN
    IF ~validateWorkstreamTaskReferences(ws, tks) THEN Fail("DanglingReference", ws)
    ELSE IF i = 0 THEN Fail("WorkstreamNotFound", ws)
    ELSE IF ~Includes(ws[i].tasks, from) THEN Fail("TaskNotInWorkstream", ws)
    ELSE IF ~Includes(ws[i].tasks, to) THEN Fail("TaskNotInWorkstream", ws)
    ELSE IF ~\E k \in 1 .. Len(ws[i].dependencies) :
                 SamePair(ws[i].dependencies[k], from, to)
         THEN Ok([ws EXCEPT ![i].dependencies = Append(@, Dep(from, to, type))])
         ELSE Unchanged(ws)

\* mutant: the dependency between the two tasks is removed in both directions
removeDependency_EitherDirection(ws, tks, uuid, from, to) ==
    LET i == FindByUuid(ws, uuid) IN
    IF ~validateWorkstreamTaskReferences(ws, tks) THEN Fail("DanglingReference", ws)
    ELSE IF i = 0 THEN Fail("WorkstreamNotFound", ws)
    ELSE Ok([ws EXCEPT ![i].dependencies =
                 SelectSeq(@, LAMBDA d : ~SamePair(d, from, to)
                                         /\ ~SamePair(d, to, from))])

removeDependency(ws, tks, uuid, from, to) ==
    LET i == FindByUuid(ws, uuid) IN
    IF ~validateWorkstreamTaskReferences(ws, tks) THEN Fail("DanglingReference", ws)
    ELSE IF i = 0 THEN Fail("WorkstreamNotFound", ws)
    ELSE Ok([ws EXCEPT ![i].dependencies =
                 SelectSeq(@, LAMBDA d : ~SamePair(d, from, to))])

\* getDependentTasks: the targets of the dependencies leaving the task
getDependentTasks(ws, tks, uuid, t) ==
    LET i == FindByUuid(ws, uuid) IN
    IF ~validateWorkstreamTaskReferences(ws, tks)
    THEN [err |-> "DanglingReference", result |-> <<>>]
    ELSE IF i = 0 THEN [err |-> "WorkstreamNotFound", result |-> <<>>]
    ELSE LET out == SelectSeq(ws[i].dependencies, LAMBDA d : d.fromTaskUuid = t)
         IN  [err |-> "none", result |-> [k \in 1 .. Len(out) |-> out[k].toTaskUuid]]

\* getDependencyTasks: the sources of the dependencies entering the task
getDependencyTasks(ws, tks, uuid, t) ==
    LET i == FindByUuid(ws, uuid) IN
    IF ~validateWorkstreamTaskReferences(ws, tks)
    THEN [err |-> "DanglingReference", result |-> <<>>]
    ELSE IF i = 0 THEN [err |-> "WorkstreamNotFound", result |-> <<>>]
    ELSE LET in == SelectSeq(ws[i].dependencies, LAMBDA d : d.toTaskUuid = t)
         IN  [err |-> "none", result |-> [k \in 1 .. Len(in) |-> in[k].fromTaskUuid]]

\* ------------------------------------------------------- cycle check (DFS)
\* adjList of wouldCreateCycle: one entry per member, the proposed edge pushed last
AdjList(w, from, to, proposed) ==
    [n \in Range(w.tasks) |->
        LET out == SelectSeq(w.dependencies, LAMBDA d : d.fromTaskUuid = n)
            tos == [k \in 1 .. Len(out) |-> out[k].toTaskUuid]
        IN  IF proposed /\ n = from THEN Append(tos, to) ELSE tos]

\* adjList.get(node) || []
Neighbors(adj, node) == IF node \in DOMAIN adj THEN adj[node] ELSE <<>>

\* hasCycle(node) with its two mutable sets; st = [found, visited, recStack]
RECURSIVE hasCycle(_, _, _), hasCycleLoop(_, _, _, _)
hasCycle(adj, node, st) ==
    IF node \notin st.visited
    THEN LET r == hasCycleLoop(adj, Neighbors(adj, node), 1,
                      [st EXCEPT !.visited = @ \cup {node},
                                 !.recStack = @ \cup {node}])
         IN  IF r.found THEN r
             ELSE [r EXCEPT !.recStack = @ \ {node}]
    ELSE [st EXCEPT !.recStack = @ \ {node}]

hasCycleLoop(adj, nbrs, k, st) ==
    IF k > Len(nbrs) THEN st
    ELSE IF nbrs[k] \notin st.visited
         THEN LET r == hasCycle(adj, nbrs[k], st)
              IN  IF r.found THEN r
                  ELSE IF nbrs[k] \in r.recStack THEN [r EXCEPT !.found = TRUE]
                  ELSE hasCycleLoop(adj, nbrs, k + 1, r)
         ELSE IF nbrs[k] \in st.recStack THEN [st EXCEPT !.found = TRUE]
              ELSE hasCycleLoop(adj, nbrs, k + 1, st)

\* mutant: the search starts from the first member only
CycleFromAny_FirstOnly(adj, members) ==
    /\ members # <<>>
    /\ hasCycle(adj, members[1],
                [found |-> FALSE, visited |-> {}, recStack |-> {}]).found

\* the loop over workstream.tasks, both sets cleared after every start node
CycleFromAny(adj, members) ==
    \E k \in 1 .. Len(members) :
        hasCycle(adj, members[k],
                 [found |-> FALSE, visited |-> {}, recStack |-> {}]).found

\* mutant: the proposed edge is not added before the search
wouldCreateCycle_NoProposedEdge(ws, tks, uuid, from, to) ==
    LET i == FindByUuid(ws, uuid) IN
    IF ~validateWorkstreamTaskReferences(ws, tks)
    THEN [err |-> "DanglingReference", result |-> FALSE]
    ELSE IF i = 0 THEN [err |-> "WorkstreamNotFound", result |-> FALSE]
    ELSE [err |-> "none",
          result |-> CycleFromAny(AdjList(ws[i], from, to, FALSE), ws[i].tasks)]

wouldCreateCycle(ws, tks, uuid, from, to) ==
    LET i == FindByUuid(ws, uuid) IN
    IF ~validateWorkstreamTaskReferences(ws, tks)
    THEN [err |-> "DanglingReference", result |-> FALSE]
    ELSE IF i = 0 THEN [err |-> "WorkstreamNotFound", result |-> FALSE]
    ELSE [err |-> "none",
          result |-> CycleFromAny(AdjList(ws[i], from, to, TRUE), ws[i].tasks)]

\* ------------------------------------------------- topological sort (Kahn)
\* keys of the inDegree map in insertion order: the members, then every
\* dependency target that is no member, in order of first occurrence
RECURSIVE Dedup(_)
Dedup(s) ==
    IF s = <<>> THEN <<>>
    ELSE LET d == Dedup(SubSeq(s, 1, Len(s) - 1))
         IN  IF Includes(d, s[Len(s)]) THEN d ELSE Append(d, s[Len(s)])

InDegreeKeys(w) ==
    Dedup(w.tasks \o [k \in 1 .. Len(w.dependencies) |-> w.dependencies[k].toTaskUuid])

InDegree0(w) ==
    [n \in Range(InDegreeKeys(w)) |->
        Cardinality({k \in 1 .. Len(w.dependencies) : w.dependencies[k].toTaskUuid = n})]

\* for (const neighbor of neighbors): decrement, push when the degree reaches 0
RECURSIVE KahnVisit(_, _, _, _)
KahnVisit(nbrs, k, deg, queue) ==
    IF k > Len(nbrs) THEN [deg |-> deg, queue |-> queue]
    ELSE LET n == nbrs[k]
             newDegree == (IF n \in DOMAIN deg THEN deg[n] ELSE 0) - 1
             deg2 == [m \in (DOMAIN deg) \cup {n} |->
                          IF m = n THEN newDegree ELSE deg[m]]
         IN  KahnVisit(nbrs, k + 1, deg2,
                       IF newDegree = 0 THEN Append(queue, n) ELSE queue)

\* while (queue.length > 0)
RECURSIVE KahnLoop(_, _, _, _)
KahnLoop(adj, deg, queue, result) ==
    IF queue = <<>> THEN result
    ELSE LET task == Head(queue)
             v == KahnVisit(Neighbors(adj, task), 1, deg, Tail(queue))
         IN  KahnLoop(adj, v.deg, v.queue, Append(result, task))

\* mutant: only the "blocks" dependencies order the tasks
KahnOrder_BlocksOnly(w) ==
    LET b == [w EXCEPT !.dependencies = SelectSeq(@, LAMBDA d : d.type = "blocks")]
        keys == InDegreeKeys(b)
        deg == InDegree0(b)
    IN  KahnLoop(AdjList(b, "", "", FALSE), deg,
                 SelectSeq(keys, LAMBDA n : deg[n] = 0), <<>>)

KahnOrder(w) ==
    LET keys == InDegreeKeys(w)
        deg == InDegree0(w)
    IN  KahnLoop(AdjList(w, "", "", FALSE), deg,
                 SelectSeq(keys, LAMBDA n : deg[n] = 0), <<>>)

\* result |-> "null" stands for the null return
getTopologicalSort(ws, tks, uuid) ==
    LET i == FindByUuid(ws, uuid) IN
    IF ~validateWorkstreamTaskReferences(ws, tks)
    THEN [err |-> "DanglingReference", result |-> "null"]
    ELSE IF i = 0 THEN [err |-> "WorkstreamNotFound", result |-> "null"]
    ELSE LET result == KahnOrder(ws[i])
         IN  IF Len(result) # Len(ws[i].tasks)
             THEN [err |-> "none", result |-> "null"]
             ELSE [err |-> "none", result |-> result]

\* ----------------------------------------------------------- connectTasks
\* createWorkstream(title, description) -> addWorkstream
createWorkstream(ws, held, title, description) ==
    addWorkstream(ws, NewWorkstream(FreshUuid(ws, held), title, description))

\* finalWorkstream is the object connectTasks loaded (or created) at its start:
\* the membership tests and the existing-dependency test read that copy, the
\* nested service calls load and store the collection themselves.
connectTasks(ws, tks, held, sourceId, targetId, type) ==
    IF sourceId = targetId THEN Fail("SelfConnection", ws)
    ELSE
    LET si == FindByTask(ws, sourceId)
        ti == FindByTask(ws, targetId)
        final == IF si = 0 /\ ti = 0 THEN NewWorkstream(FreshUuid(ws, held), "", "")
                 ELSE IF si # 0 /\ ti = 0 THEN ws[si]
                 ELSE IF si = 0 /\ ti # 0 THEN ws[ti]
                 ELSE ws[si]
        s0 == IF si = 0 /\ ti = 0 THEN createWorkstream(ws, held, "", "") ELSE ws
        r1 == IF ~Includes(final.tasks, sourceId)
              THEN addTaskToWorkstream(s0, tks, final.uuid, sourceId)
              ELSE Ok(s0)
        r2 == IF r1.err # "none" THEN r1
              ELSE IF ~Includes(final.tasks, targetId)
                   THEN addTaskToWorkstream(r1.ws, tks, final.uuid, targetId)
                   ELSE r1
        r3 == IF r2.err # "none" THEN r2
              ELSE IF ~\E k \in 1 .. Len(final.dependencies) :
                           SamePair(final.dependencies[k], sourceId, targetId)
                   THEN addDependency(r2.ws, tks, final.uuid, sourceId, targetId, type)
                   ELSE r2
    IN  r3

\* ------------------------------------------------------------ task deletion
\* mutant: the cleanup removes the member and leaves its dependencies
taskCleanup_KeepDependencies(ws, taskId) ==
    LET cleaned == [i \in 1 .. Len(ws) |->
                       [ws[i] EXCEPT !.tasks = SpliceFirst(@, taskId)]]
        modified == \E i \in 1 .. Len(ws) : Includes(ws[i].tasks, taskId)
        nonEmptyWorkstreams == SelectSeq(cleaned, LAMBDA w : Len(w.tasks) > 0)
    IN  [stores |-> modified \/ Len(nonEmptyWorkstreams) # Len(ws),
         cleaned |-> cleaned,
         nonEmptyWorkstreams |-> nonEmptyWorkstreams,
         removedWorkstreams |-> SelectSeq(cleaned, LAMBDA w :
                                    ~Includes(nonEmptyWorkstreams, w))]

\* mutant: the cleanup removes every dependency of a workstream it visits
taskCleanup_AllDependencies(ws, taskId) ==
    LET cleaned == [i \in 1 .. Len(ws) |->
                       [ws[i] EXCEPT !.tasks = SpliceFirst(@, taskId),
                                     !.dependencies = <<>>]]
        modified == \E i \in 1 .. Len(ws) :
                        \/ Includes(ws[i].tasks, taskId)
                        \/ Len(cleaned[i].dependencies) # Len(ws[i].dependencies)
        nonEmptyWorkstreams == SelectSeq(cleaned, LAMBDA w : Len(w.tasks) > 0)
    IN  [stores |-> modified \/ Len(nonEmptyWorkstreams) # Len(ws),
         cleaned |-> cleaned,
         nonEmptyWorkstreams |-> nonEmptyWorkstreams,
         removedWorkstreams |-> SelectSeq(cleaned, LAMBDA w :
                                    ~Includes(nonEmptyWorkstreams, w))]

\* what handleTaskDeletion computes from the loaded list before it stores
taskCleanup(ws, taskId) ==
    LET cleaned == [i \in 1 .. Len(ws) |->
                       [ws[i] EXCEPT
                           !.tasks = SpliceFirst(@, taskId),
                           !.dependencies = SelectSeq(@, LAMBDA d : ~Touches(d, taskId))]]
        modified == \E i \in 1 .. Len(ws) :
                        \/ Includes(ws[i].tasks, taskId)
                        \/ Len(cleaned[i].dependencies) # Len(ws[i].dependencies)
        nonEmptyWorkstreams == SelectSeq(cleaned, LAMBDA w : Len(w.tasks) > 0)
    IN  [stores |-> modified \/ Len(nonEmptyWorkstreams) # Len(ws),
         cleaned |-> cleaned,
         nonEmptyWorkstreams |-> nonEmptyWorkstreams,
         removedWorkstreams |-> SelectSeq(cleaned, LAMBDA w :
                                    ~Includes(nonEmptyWorkstreams, w))]

\* mutant: the workstreams left without tasks stay in the stored list
handleTaskDeletion_KeepEmpty(ws, taskId) ==
    IF taskCleanup(ws, taskId).stores THEN taskCleanup(ws, taskId).cleaned ELSE ws

\* handleTaskDeletion: what it stores, or the loaded list when it stores nothing
handleTaskDeletion(ws, taskId) ==
    IF taskCleanup(ws, taskId).stores
    THEN taskCleanup(ws, taskId).nonEmptyWorkstreams
    ELSE ws

\* something a handler does that others can see, in the order it does it
Effect(event, uuid, ws) == [event |-> event, uuid |-> uuid, ws |-> ws]

\* handleTaskDeletion: storeWorkstreams, then the delete callbacks of every
\* removed workstream, one after the other
handleTaskDeletionEffects(ws, taskId) ==
    LET c == taskCleanup(ws, taskId) IN
    IF c.stores
    THEN <<Effect("storeWorkstreams", NoWs, c.nonEmptyWorkstreams)>>
         \o [k \in 1 .. Len(c.removedWorkstreams) |->
                Effect("workstreamDeleted", c.removedWorkstreams[k].uuid, <<>>)]
    ELSE <<>>

\* removeTask: nothing when the task is not stored; otherwise the task list is
\* stored without it and the registered delete callback cleans the workstreams
removeTask(ws, tks, taskId) ==
    IF taskId \notin tks THEN [tasks |-> tks, ws |-> ws]
    ELSE [tasks |-> tks \ {taskId}, ws |-> handleTaskDeletion(ws, taskId)]

\* removeTask: storeTasks, then the task delete callbacks
removeTaskEffects(ws, tks, taskId) ==
    IF taskId \notin tks THEN <<>>
    ELSE <<Effect("storeTasks", NoWs, <<>>)>> \o handleTaskDeletionEffects(ws, taskId)

\* --------------------------------------------------------------- the system
NoArg == "-"

Bounded(ws) ==
    /\ Len(ws) <= MaxWs
    /\ \A i \in 1 .. Len(ws) : Len(ws[i].dependencies) <= MaxDeps

Call(op, uuid, a, b, type, err, other) ==
    [op |-> op, uuid |-> uuid, a |-> a, b |-> b, type |-> type,
     err |-> err, other |-> other]

\* a task service call, its argument and its effects
TaskCall(op, t, effects) ==
    [op |-> op, uuid |-> NoWs, a |-> t, b |-> NoArg, type |-> NoArg,
     err |-> "none", other |-> NoWs, effects |-> effects]

\* no call is running and the outcome of the last one has been consumed
Idle == Call("idle", NoWs, NoArg, NoArg, NoArg, "none", NoWs)

\* the layout has not been asked for
NotLaidOut == [err |-> "idle", remaining |-> <<>>, positions |-> <<>>]

NoView == [nodes |-> <<>>, edges |-> <<>>, out |-> NotLaidOut]

Init ==
    /\ tasks = {}
    /\ workstreams = <<>>
    /\ prev = <<>>
    /\ last = Idle
    /\ procs = <<>>
    /\ view = NoView

\* one whole service call on the stored list
Commit(op, uuid, a, b, type, r) ==
    /\ last = Idle
    /\ Bounded(r.ws)
    /\ workstreams' = r.ws
    /\ prev' = workstreams
    /\ last' = Call(op, uuid, a, b, type, r.err, r.other)
    /\ UNCHANGED <<tasks, procs, view>>

CreateTask ==
    \E t \in TaskIds \ tasks :
        /\ last = Idle
        /\ tasks' = tasks \cup {t}
        /\ prev' = workstreams
        /\ last' = Call("createTask", NoWs, t, NoArg, NoArg, "none", NoWs)
        /\ UNCHANGED <<workstreams, procs, view>>

RemoveTask ==
    \E t \in TaskIds :
        LET r == removeTask(workstreams, tasks, t) IN
        /\ last = Idle
        /\ tasks' = r.tasks
        /\ workstreams' = r.ws
        /\ prev' = workstreams
        /\ last' = TaskCall("removeTask", t, removeTaskEffects(workstreams, tasks, t))
        /\ UNCHANGED <<procs, view>>

CreateWorkstream ==
    /\ Len(workstreams) < MaxWs
    /\ Commit("createWorkstream", NoWs, NoArg, NoArg, NoArg,
              Ok(createWorkstream(workstreams, {}, "W", "")))

AddTaskToWorkstream ==
    \E u \in WsIds, t \in TaskIds :
        Commit("addTaskToWorkstream", u, t, NoArg, NoArg,
               addTaskToWorkstream(workstreams, tasks, u, t))

RemoveTaskFromWorkstream ==
    \E u \in WsIds, t \in TaskIds :
        Commit("removeTaskFromWorkstream", u, t, NoArg, NoArg,
               removeTaskFromWorkstream(workstreams, tasks, u, t))

AddDependency(Types) ==
    \E u \in WsIds, from \in TaskIds, to \in TaskIds, type \in Types :
        Commit("addDependency", u, from, to, type,
               addDependency(workstreams, tasks, u, from, to, type))

RemoveDependency ==
    \E u \in WsIds, from \in TaskIds, to \in TaskIds :
        Commit("removeDependency", u, from, to, NoArg,
               removeDependency(workstreams, tasks, u, from, to))

ConnectTasks(Types) ==
    \E s \in TaskIds, t \in TaskIds, type \in Types :
        Commit("connectTasks", NoWs, s, t, type,
               connectTasks(workstreams, tasks, {}, s, t, type))

\* the caller's await resumes: the handler returns and the next gesture is taken
Return ==
    /\ last # Idle
    /\ last' = Idle
    /\ prev' = <<>>
    /\ UNCHANGED <<tasks, workstreams, procs, view>>

Next ==
    \/ Return
    \/ CreateTask
    \/ RemoveTask
    \/ CreateWorkstream
    \/ AddTaskToWorkstream
    \/ RemoveTaskFromWorkstream
    \/ AddDependency({DefaultType})
    \/ RemoveDependency
    \/ ConnectTasks({DefaultType})

\* every service operation, called directly, with the default dependency type
Spec == Init /\ [][Next]_vars

\* ---------------------------------------------- both dependency types
\* all tasks exist and none is created or deleted
InitTypes ==
    /\ tasks = TaskIds
    /\ workstreams = <<>>
    /\ prev = <<>>
    /\ last = Idle
    /\ procs = <<>>
    /\ view = NoView

NextTypes ==
    \/ Return
    \/ CreateWorkstream
    \/ AddTaskToWorkstream
    \/ RemoveTaskFromWorkstream
    \/ AddDependency(DependencyType)
    \/ RemoveDependency
    \/ ConnectTasks(DependencyType)

SpecTypes == InitTypes /\ [][NextTypes]_vars

\* ------------------------------------------ the application's own gestures
StoredUuids == {workstreams[i].uuid : i \in 1 .. Len(workstreams)}

\* onConnect: a connection drawn between two task nodes
OnConnect ==
    \E s \in tasks, t \in tasks :
        /\ s # t
        /\ Commit("connectTasks", NoWs, s, t, "blocks",
                  connectTasks(workstreams, tasks, {}, s, t, "blocks"))

\* onEdgesDelete: removeDependency on every workstream that shows the edge
RECURSIVE RemoveFromAll(_, _, _, _, _)
RemoveFromAll(ws, tks, uuids, from, to) ==
    IF uuids = <<>> THEN ws
    ELSE RemoveFromAll(removeDependency(ws, tks, Head(uuids), from, to).ws,
                       tks, Tail(uuids), from, to)

OnEdgesDelete ==
    \E s \in tasks, t \in tasks :
        LET relevant == SelectSeq(workstreams, LAMBDA w :
                            \E k \in 1 .. Len(w.dependencies) :
                                SamePair(w.dependencies[k], s, t))
            uuids == [k \in 1 .. Len(relevant) |-> relevant[k].uuid]
        IN  /\ uuids # <<>>
            /\ Commit("removeDependency", NoWs, s, t, NoArg,
                      Ok(RemoveFromAll(workstreams, tasks, uuids, s, t)))

\* handleAddToWorkstream: "add to workstream" in a task node's context menu
HandleAddToWorkstream ==
    \E u \in StoredUuids, t \in tasks :
        Commit("addTaskToWorkstream", u, t, NoArg, NoArg,
               addTaskToWorkstream(workstreams, tasks, u, t))

NextApp ==
    \/ Return
    \/ CreateTask
    \/ RemoveTask
    \/ CreateWorkstream
    \/ OnConnect
    \/ OnEdgesDelete
    \/ HandleAddToWorkstream

SpecApp == Init /\ [][NextApp]_vars

\* ------------------------- addDependency only after wouldCreateCycle = false
GuardedAddDependency ==
    \E u \in WsIds, from \in TaskIds, to \in TaskIds, type \in DependencyType :
        LET c == wouldCreateCycle(workstreams, tasks, u, from, to) IN
        /\ last = Idle
        /\ c.err = "none"
        /\ c.result = FALSE
        /\ Commit("addDependency", u, from, to, type,
                  addDependency(workstreams, tasks, u, from, to, type))

NextGuarded ==
    \/ Return
    \/ CreateTask
    \/ RemoveTask
    \/ CreateWorkstream
    \/ AddTaskToWorkstream
    \/ RemoveTaskFromWorkstream
    \/ GuardedAddDependency
    \/ RemoveDependency

SpecGuarded == Init /\ [][NextGuarded]_vars

\* ----------------------------------------------- the read-only graph queries
\* a query call, its arguments and what it returned
Query(op, uuid, a, b, err, result) ==
    [op |-> op, uuid |-> uuid, a |-> a, b |-> b, type |-> NoArg,
     err |-> err, other |-> NoWs, result |-> result]

\* One workstream is grown member by member and dependency by dependency, and
\* the two queries are asked of every graph so built.  Members are added in the
\* order of GraphOrder: the queries treat task ids as opaque, so every other
\* member order is one of these graphs with its tasks renamed.
GraphOrder == <<"A", "B", "C", "D">>

GraphTasks == Range(GraphOrder)

GraphWs == FreshUuid(<<>>, {})

InitGraph ==
    /\ tasks = GraphTasks
    /\ workstreams = createWorkstream(<<>>, {}, "W", "")
    /\ prev = <<>>
    /\ last = Idle
    /\ procs = <<>>
    /\ view = NoView

GraphAddTask ==
    LET r == addTaskToWorkstream(workstreams, tasks, GraphWs,
                                 GraphOrder[Len(workstreams[1].tasks) + 1])
    IN  /\ last = Idle
        /\ Len(workstreams[1].tasks) < Len(GraphOrder)
        /\ workstreams' = r.ws
        /\ UNCHANGED <<tasks, prev, last, procs, view>>

GraphAddDependency ==
    \E from \in GraphTasks, to \in GraphTasks, type \in DependencyType :
        LET r == addDependency(workstreams, tasks, GraphWs, from, to, type) IN
        /\ last = Idle
        /\ Len(workstreams[1].dependencies) < MaxGraphDeps
        /\ r.wrote
        /\ workstreams' = r.ws
        /\ UNCHANGED <<tasks, prev, last, procs, view>>

\* wouldCreateCycle: loads, validates, searches; it has no storeWorkstreams call
WouldCreateCycle ==
    \E from \in GraphTasks, to \in GraphTasks :
        LET c == wouldCreateCycle(workstreams, tasks, GraphWs, from, to) IN
        /\ last = Idle
        /\ Len(workstreams[1].dependencies) < MaxGraphDeps
        /\ last' = Query("wouldCreateCycle", GraphWs, from, to, c.err, c.result)
        /\ prev' = workstreams
        /\ UNCHANGED <<tasks, workstreams, procs, view>>

\* getTopologicalSort: loads, validates, sorts; it has no storeWorkstreams call
GetTopologicalSort ==
    LET r == getTopologicalSort(workstreams, tasks, GraphWs) IN
    /\ last = Idle
    /\ last' = Query("getTopologicalSort", GraphWs, NoArg, NoArg, r.err, r.result)
    /\ prev' = workstreams
    /\ UNCHANGED <<tasks, workstreams, procs, view>>

NextGraph ==
    \/ Return
    \/ GraphAddTask
    \/ GraphAddDependency
    \/ WouldCreateCycle
    \/ GetTopologicalSort

SpecGraph == InitGraph /\ [][NextGraph]_vars

\* ------------------------------------- every service function, any arguments
\* The mutating functions and the queries, called with any workstream uuid and
\* any task id, while tasks are created and deleted: a member that is no
\* stored task (addTaskToWorkstream does not look the task up) makes the
\* stored list fail validation until the task is created or the member removed.
AskWouldCreateCycle ==
    \E u \in WsIds, from \in TaskIds, to \in TaskIds :
        LET c == wouldCreateCycle(workstreams, tasks, u, from, to) IN
        /\ last = Idle
        /\ last' = Query("wouldCreateCycle", u, from, to, c.err, c.result)
        /\ prev' = workstreams
        /\ UNCHANGED <<tasks, workstreams, procs, view>>

AskTopologicalSort ==
    \E u \in WsIds :
        LET r == getTopologicalSort(workstreams, tasks, u) IN
        /\ last = Idle
        /\ last' = Query("getTopologicalSort", u, NoArg, NoArg, r.err, r.result)
        /\ prev' = workstreams
        /\ UNCHANGED <<tasks, workstreams, procs, view>>

GetDependentTasks ==
    \E u \in WsIds, t \in TaskIds :
        LET r == getDependentTasks(workstreams, tasks, u, t) IN
        /\ last = Idle
        /\ last' = Query("getDependentTasks", u, t, NoArg, r.err, r.result)
        /\ prev' = workstreams
        /\ UNCHANGED <<tasks, workstreams, procs, view>>

GetDependencyTasks ==
    \E u \in WsIds, t \in TaskIds :
        LET r == getDependencyTasks(workstreams, tasks, u, t) IN
        /\ last = Idle
        /\ last' = Query("getDependencyTasks", u, t, NoArg, r.err, r.result)
        /\ prev' = workstreams
        /\ UNCHANGED <<tasks, workstreams, procs, view>>

NextGate ==
    \/ Return
    \/ CreateTask
    \/ RemoveTask
    \/ CreateWorkstream
    \/ AddTaskToWorkstream
    \/ RemoveTaskFromWorkstream
    \/ AddDependency({DefaultType})
    \/ RemoveDependency
    \/ AskWouldCreateCycle
    \/ AskTopologicalSort
    \/ GetDependentTasks
    \/ GetDependencyTasks

SpecGate == Init /\ [][NextGate]_vars

\* ------------------------------------------------- the file behind the list
\* A collection is built with the service (titles and descriptions of both
\* kinds, members and dependencies in every order), written with
\* storeWorkstreams and read back with loadWorkstreams.
Titles == {"", "W"}

Descriptions == {"", "D"}

\* a storeWorkstreams call and the file it left
StoreCall(file) ==
    [op |-> "storeWorkstreams", uuid |-> NoWs, a |-> NoArg, b |-> NoArg,
     type |-> NoArg, err |-> "none", other |-> NoWs, file |-> file]

StorageCreateWorkstream ==
    \E title \in Titles, description \in Descriptions :
        /\ last = Idle
        /\ Len(workstreams) < MaxWs
        /\ workstreams' = createWorkstream(workstreams, {}, title, description)
        /\ UNCHANGED <<tasks, prev, last, procs, view>>

StorageAddTask ==
    \E u \in StoredUuids, t \in TaskIds :
        LET r == addTaskToWorkstream(workstreams, tasks, u, t) IN
        /\ last = Idle
        /\ r.wrote
        /\ workstreams' = r.ws
        /\ UNCHANGED <<tasks, prev, last, procs, view>>

StorageAddDependency ==
    \E u \in StoredUuids, from \in TaskIds, to \in TaskIds, type \in DependencyType :
        LET r == addDependency(workstreams, tasks, u, from, to, type) IN
        /\ last = Idle
        /\ r.wrote
        /\ Bounded(r.ws)
        /\ workstreams' = r.ws
        /\ UNCHANGED <<tasks, prev, last, procs, view>>

StoreWorkstreams ==
    /\ last = Idle
    /\ last' = StoreCall(storeWorkstreams(workstreams))
    /\ prev' = workstreams
    /\ UNCHANGED <<tasks, workstreams, procs, view>>

LoadWorkstreams ==
    /\ last.op = "storeWorkstreams"
    /\ last' = Query("loadWorkstreams", NoWs, NoArg, NoArg, "none",
                     loadWorkstreams(last.file))
    /\ UNCHANGED <<tasks, workstreams, prev, procs, view>>

NextStorage ==
    \/ Return
    \/ StorageCreateWorkstream
    \/ StorageAddTask
    \/ StorageAddDependency
    \/ StoreWorkstreams
    \/ LoadWorkstreams

SpecStorage == InitTypes /\ [][NextStorage]_vars

\* ------------------------------------------------- calculateDAGPositions
\* Coordinates are kept in half units (a stored 125 is the coordinate 62.5):
\* the centring offsets are odd multiples of nodeSpacing * 0.5 / 2.
Half == 2
nodeSpacing == 250
levelSpacing == 50
componentSpacing == 50
singleNodeHeight == 100
minComponentHeight == 100

\* levelSpacing * 0.3
levelStep == (levelSpacing * 3) \div 10

\* a Set filled by add(): the elements in the order of their first insertion
adjacencyList(nodes, edges) ==
    [n \in Range(nodes) |->
        LET out == SelectSeq(edges, LAMBDA e : e.source = n)
        IN  Dedup([k \in 1 .. Len(out) |-> out[k].target])]

reverseAdjacencyList(nodes, edges) ==
    [n \in Range(nodes) |->
        LET in == SelectSeq(edges, LAMBDA e : e.target = n)
        IN  Dedup([k \in 1 .. Len(in) |-> in[k].source])]

\* dfs(nodeId, component) with the visited set; st = [visited, component]
RECURSIVE dfs(_, _, _, _), dfsEach(_, _, _, _, _)
dfs(adj, radj, nodeId, st) ==
    IF nodeId \in st.visited THEN st
    ELSE dfsEach(adj, radj, Neighbors(radj, nodeId), 1,
             dfsEach(adj, radj, Neighbors(adj, nodeId), 1,
                 [visited |-> st.visited \cup {nodeId},
                  component |-> Append(st.component, nodeId)]))

dfsEach(adj, radj, nbrs, k, st) ==
    IF k > Len(nbrs) THEN st
    ELSE dfsEach(adj, radj, nbrs, k + 1, dfs(adj, radj, nbrs[k], st))

\* nodes.forEach: a component for every node not visited yet
RECURSIVE findComponents(_, _, _, _, _, _)
findComponents(adj, radj, nodes, k, visited, comps) ==
    IF k > Len(nodes) THEN comps
    ELSE IF nodes[k] \in visited
         THEN findComponents(adj, radj, nodes, k + 1, visited, comps)
         ELSE LET st == dfs(adj, radj, nodes[k],
                            [visited |-> visited, component |-> <<>>])
              IN  findComponents(adj, radj, nodes, k + 1, st.visited,
                                 Append(comps, st.component))

components(nodes, edges) ==
    findComponents(adjacencyList(nodes, edges), reverseAdjacencyList(nodes, edges),
                   nodes, 1, {}, <<>>)

\* the edges with both ends in the component
componentEdges(component, edges) ==
    SelectSeq(edges, LAMBDA e : Includes(component, e.source)
                                /\ Includes(component, e.target))

componentAdjacency(component, edges) ==
    adjacencyList(component, componentEdges(component, edges))

\* one increment for every edge into the node
inDegree(component, edges) ==
    [n \in Range(component) |->
        LET ce == componentEdges(component, edges)
        IN  Cardinality({k \in 1 .. Len(ce) : ce[k].target = n})]

\* componentAdjacency.get(nodeId)?.forEach: decrement, push when it reaches 0
RECURSIVE levelVisit(_, _, _, _)
levelVisit(nbrs, k, deg, queue) ==
    IF k > Len(nbrs) THEN [deg |-> deg, queue |-> queue]
    ELSE LET n == nbrs[k]
             newInDegree == (IF n \in DOMAIN deg THEN deg[n] ELSE 0) - 1
             deg2 == [m \in (DOMAIN deg) \cup {n} |->
                          IF m = n THEN newInDegree ELSE deg[m]]
         IN  levelVisit(nbrs, k + 1, deg2,
                        IF newInDegree = 0 THEN Append(queue, n) ELSE queue)

\* for (i < levelSize): shift the node into the current level
RECURSIVE currentLevel(_, _, _, _, _)
currentLevel(cadj, deg, queue, levelSize, level) ==
    IF levelSize = 0 THEN [deg |-> deg, queue |-> queue, level |-> level]
    ELSE LET nodeId == Head(queue)
             v == levelVisit(Neighbors(cadj, nodeId), 1, deg, Tail(queue))
         IN  currentLevel(cadj, v.deg, v.queue, levelSize - 1, Append(level, nodeId))

\* while (queue.length > 0)
RECURSIVE levelLoop(_, _, _, _)
levelLoop(cadj, deg, queue, levels) ==
    IF queue = <<>> THEN levels
    ELSE LET r == currentLevel(cadj, deg, queue, Len(queue), <<>>)
         IN  levelLoop(cadj, r.deg, r.queue,
                       IF Len(r.level) > 0 THEN Append(levels, r.level) ELSE levels)

kahnLevels(component, edges) ==
    LET deg == inDegree(component, edges)
    IN  levelLoop(componentAdjacency(component, edges), deg,
                  SelectSeq(component, LAMBDA n : deg[n] = 0), <<>>)

\* mutant: every node of the component is reported
remainingNodes_WholeComponent(component, levels) == component

\* component.filter(nodeId => !processedNodes.has(nodeId))
remainingNodes(component, levels) ==
    SelectSeq(component, LAMBDA n :
        ~\E l \in 1 .. Len(levels) : Includes(levels[l], n))

\* mutant: no component is treated as a simple chain
isSimpleChain_Never(levels) == FALSE

isSimpleChain(levels) == \A l \in 1 .. Len(levels) : Len(levels[l]) <= 1

\* the y of the node at nodeIndex of the level at levelIndex (both from 0)
yPosition(levels, baseY, levelIndex, nodeIndex) ==
    IF isSimpleChain(levels) THEN Half * baseY
    ELSE LET len == Len(levels[levelIndex + 1])
             levelY == Half * baseY + Half * levelIndex * levelStep
             offsetY == IF len > 1
                        THEN (2 * nodeIndex - (len - 1)) * (nodeSpacing \div 2)
                        ELSE 0
         IN  levelY + offsetY

\* positions.set for every node of every level of one component
componentPositions(levels, baseY) ==
    [n \in UNION {Range(levels[l]) : l \in 1 .. Len(levels)} |->
        LET l == CHOOSE i \in 1 .. Len(levels) : Includes(levels[i], n)
            k == Position(levels[l], n)
        IN  [x |-> Half * (l - 1) * nodeSpacing,
             y |-> yPosition(levels, baseY, l - 1, k - 1)]]

Max(a, b) == IF a >= b THEN a ELSE b

componentHeight(levels) ==
    IF isSimpleChain(levels) THEN levelSpacing
    ELSE Max(Len(levels) * levelStep, minComponentHeight)

\* components.forEach with currentComponentY; the throw ends the whole call
RECURSIVE layoutComponents(_, _, _, _, _)
layoutComponents(comps, edges, k, currentComponentY, positions) ==
    IF k > Len(comps)
    THEN [err |-> "none", remaining |-> <<>>, positions |-> positions]
    ELSE IF Len(comps[k]) = 1
    THEN layoutComponents(comps, edges, k + 1, currentComponentY + singleNodeHeight,
             (comps[k][1] :> [x |-> 0, y |-> Half * currentComponentY]) @@ positions)
    ELSE LET levels == kahnLevels(comps[k], edges)
             remaining == remainingNodes(comps[k], levels)
         IN  IF Len(remaining) > 0
             THEN [err |-> "CycleDetected", remaining |-> remaining, positions |-> <<>>]
             ELSE layoutComponents(comps, edges, k + 1,
                      currentComponentY + componentHeight(levels) + componentSpacing,
                      componentPositions(levels, currentComponentY) @@ positions)

\* mutant: currentComponentY lives outside the function and is not reset once
\* a call has returned
calculateDAGPositions_SharedCursor(nodes, edges) ==
    IF Len(nodes) = 0 THEN [err |-> "none", remaining |-> <<>>, positions |-> <<>>]
    ELSE layoutComponents(components(nodes, edges), edges, 1,
                          IF view.kept = NoView THEN 0 ELSE componentSpacing, <<>>)

calculateDAGPositions(nodes, edges) ==
    IF Len(nodes) = 0 THEN [err |-> "none", remaining |-> <<>>, positions |-> <<>>]
    ELSE layoutComponents(components(nodes, edges), edges, 1, 0, <<>>)

\* The view hands the layout the tasks of one workstream as nodes and the
\* dependencies among them as edges, every ordered pair once.  Nodes are
\* numbered in list order: the layout treats ids as opaque.
InitLayout ==
    /\ tasks = {}
    /\ workstreams = <<>>
    /\ prev = <<>>
    /\ last = Idle
    /\ procs = <<>>
    /\ view = NoView

LayoutAddNode ==
    /\ view.out = NotLaidOut
    /\ Len(view.nodes) < MaxLayoutNodes
    /\ view' = [view EXCEPT !.nodes = Append(@, Len(@) + 1)]
    /\ UNCHANGED <<tasks, workstreams, prev, last, procs>>

LayoutAddEdge ==
    \E s \in Range(view.nodes), t \in Range(view.nodes) :
        /\ view.out = NotLaidOut
        /\ Len(view.edges) < MaxLayoutEdges
        /\ ~Includes(view.edges, [source |-> s, target |-> t])
        /\ view' = [view EXCEPT !.edges = Append(@, [source |-> s, target |-> t])]
        /\ UNCHANGED <<tasks, workstreams, prev, last, procs>>

CalculateDAGPositions ==
    /\ view.out = NotLaidOut
    /\ view' = [view EXCEPT !.out = calculateDAGPositions(view.nodes, view.edges)]
    /\ UNCHANGED <<tasks, workstreams, prev, last, procs>>

\* the next render starts from new input
LayoutReturn ==
    /\ view.out # NotLaidOut
    /\ view' = [view EXCEPT !.out = NotLaidOut]
    /\ UNCHANGED <<tasks, workstreams, prev, last, procs>>

NextLayout ==
    \/ LayoutAddNode
    \/ LayoutAddEdge
    \/ CalculateDAGPositions
    \/ LayoutReturn

SpecLayout == InitLayout /\ [][NextLayout]_vars

\* ------------------------------------------ the layout, edges of any kind
\* calculateDAGPositions is exported and takes any edge list: an edge may
\* name an id that is no node of the call.
ForeignId == 0

LayoutAddAnyEdge ==
    \E s \in Range(view.nodes) \cup {ForeignId},
       t \in Range(view.nodes) \cup {ForeignId} :
        /\ view.out = NotLaidOut
        /\ Len(view.edges) < MaxLayoutEdges
        /\ ~Includes(view.edges, [source |-> s, target |-> t])
        /\ view' = [view EXCEPT !.edges = Append(@, [source |-> s, target |-> t])]
        /\ UNCHANGED <<tasks, workstreams, prev, last, procs>>

NextLayoutOpen ==
    \/ LayoutAddNode
    \/ LayoutAddAnyEdge
    \/ CalculateDAGPositions
    \/ LayoutReturn

SpecLayoutOpen == InitLayout /\ [][NextLayoutOpen]_vars

\* ------------------------------------------------- the layout, called again
\* Every Map and Set of calculateDAGPositions is created inside the call.  The
\* view renders again and again: it keeps what one call got and returned,
\* renders other graphs, and hands the kept input over a second time.
NoRender ==
    [nodes |-> <<>>, edges |-> <<>>, out |-> NotLaidOut,
     kept |-> NoView, between |-> FALSE]

InitRender ==
    /\ tasks = {}
    /\ workstreams = <<>>
    /\ prev = <<>>
    /\ last = Idle
    /\ procs = <<>>
    /\ view = NoRender

RenderAddNode ==
    /\ view.out = NotLaidOut
    /\ Len(view.nodes) < MaxRenderNodes
    /\ view' = [view EXCEPT !.nodes = Append(@, Len(@) + 1)]
    /\ UNCHANGED <<tasks, workstreams, prev, last, procs>>

RenderAddEdge ==
    \E s \in Range(view.nodes), t \in Range(view.nodes) :
        /\ view.out = NotLaidOut
        /\ Len(view.edges) < MaxRenderEdges
        /\ ~Includes(view.edges, [source |-> s, target |-> t])
        /\ view' = [view EXCEPT !.edges = Append(@, [source |-> s, target |-> t])]
        /\ UNCHANGED <<tasks, workstreams, prev, last, procs>>

RenderCalculate ==
    /\ view.out = NotLaidOut
    /\ view' = [view EXCEPT
                   !.out = calculateDAGPositions(view.nodes, view.edges),
                   !.between = @ \/ (view.kept # NoView
                                      /\ <<view.nodes, view.edges>>
                                             # <<view.kept.nodes, view.kept.edges>>)]
    /\ UNCHANGED <<tasks, workstreams, prev, last, procs>>

\* the first call's input and result are kept; the next render starts afresh
RenderKeep ==
    /\ view.out # NotLaidOut
    /\ view.kept = NoView
    /\ view' = [NoRender EXCEPT
                   !.kept = [nodes |-> view.nodes, edges |-> view.edges,
                             out |-> view.out]]
    /\ UNCHANGED <<tasks, workstreams, prev, last, procs>>

\* the next render starts afresh
RenderDiscard ==
    /\ view.out # NotLaidOut
    /\ view' = [view EXCEPT !.nodes = <<>>, !.edges = <<>>, !.out = NotLaidOut]
    /\ UNCHANGED <<tasks, workstreams, prev, last, procs>>

NextRender ==
    \/ RenderAddNode
    \/ RenderAddEdge
    \/ RenderCalculate
    \/ RenderKeep
    \/ RenderDiscard

SpecRender == InitRender /\ [][NextRender]_vars

\* ------------------------------------------------- overlapping operations
\* Every service function is async: loadWorkstreams, loadTasks and
\* storeWorkstreams each await the file system, and another handler can run at
\* every await.  A file is read in one step (file.text()) and replaced in one
\* step (writable.close()); what a function does between two awaits is one step.
NoFinal == NewWorkstream(NoWs, "", "")

IdleProc ==
    [op |-> "idle", uuid |-> NoWs, a |-> NoArg, b |-> NoArg, type |-> NoArg,
     pc |-> "idle", stage |-> "top", loaded |-> <<>>, final |-> NoFinal,
     err |-> "none"]

InitAsync ==
    /\ tasks = TaskIds
    /\ workstreams = <<>>
    /\ prev = <<>>
    /\ last = Idle
    /\ procs = [calls |-> 0, slot |-> [p \in ProcIds |-> IdleProc]]
    /\ view = NoView

\* uuids some operation in flight already holds
HeldUuids ==
    UNION {{procs.slot[q].final.uuid} \cup
           {procs.slot[q].loaded[i].uuid : i \in 1 .. Len(procs.slot[q].loaded)} :
              q \in ProcIds}

Begin(p, op, uuid, a, b, type) ==
    /\ procs.calls < MaxCalls
    /\ procs.slot[p].op = "idle"
    /\ procs' = [procs EXCEPT
                    !.calls = @ + 1,
                    !.slot[p] = [IdleProc EXCEPT !.op = op, !.uuid = uuid, !.a = a,
                                                 !.b = b, !.type = type,
                                                 !.pc = "load"]]
    /\ UNCHANGED <<tasks, workstreams, prev, last, view>>

StartCreateWorkstream(p) ==
    Begin(p, "createWorkstream", NoWs, NoArg, NoArg, NoArg)

StartAddTaskToWorkstream(p) ==
    \E u \in StoredUuids, t \in tasks :
        Begin(p, "addTaskToWorkstream", u, t, NoArg, NoArg)

StartRemoveTaskFromWorkstream(p) ==
    \E u \in StoredUuids, t \in tasks :
        Begin(p, "removeTaskFromWorkstream", u, t, NoArg, NoArg)

StartAddDependency(p) ==
    \E u \in StoredUuids, from \in tasks, to \in tasks :
        Begin(p, "addDependency", u, from, to, DefaultType)

StartRemoveDependency(p) ==
    \E u \in StoredUuids, from \in tasks, to \in tasks :
        Begin(p, "removeDependency", u, from, to, NoArg)

StartConnectTasks(p) ==
    \E s \in tasks, t \in tasks :
        /\ s # t
        /\ Begin(p, "connectTasks", NoWs, s, t, "blocks")

\* the service call a process is in: its own, or the one connectTasks awaits
StageCall(me) ==
    IF me.op # "connectTasks" THEN [name |-> me.op, uuid |-> me.uuid]
    ELSE IF me.stage = "addDep" THEN [name |-> "addDependency", uuid |-> me.final.uuid]
    ELSE [name |-> "addTaskToWorkstream", uuid |-> me.final.uuid]

StageTask(me) == IF me.op = "connectTasks" /\ me.stage = "addTarget" THEN me.b ELSE me.a

Service(me, ws, tks) ==
    LET c == StageCall(me) IN
    CASE c.name = "addTaskToWorkstream" ->
            addTaskToWorkstream(ws, tks, c.uuid, StageTask(me))
      [] c.name = "removeTaskFromWorkstream" ->
            removeTaskFromWorkstream(ws, tks, c.uuid, me.a)
      [] c.name = "addDependency" ->
            addDependency(ws, tks, c.uuid, me.a, me.b, me.type)
      [] c.name = "removeDependency" ->
            removeDependency(ws, tks, c.uuid, me.a, me.b)

\* connectTasks: the nested call it makes next, decided on finalWorkstream
NeedsStage(me, st) ==
    \/ st = "addSource" /\ ~Includes(me.final.tasks, me.a)
    \/ st = "addTarget" /\ ~Includes(me.final.tasks, me.b)
    \/ st = "addDep" /\ ~\E k \in 1 .. Len(me.final.dependencies) :
                             SamePair(me.final.dependencies[k], me.a, me.b)

StageOrder == <<"top", "create", "addSource", "addTarget", "addDep">>

StageRank(st) == CHOOSE k \in 1 .. Len(StageOrder) : StageOrder[k] = st

Advance(me) ==
    LET later == {k \in (StageRank(me.stage) + 1) .. Len(StageOrder) :
                     NeedsStage(me, StageOrder[k])}
    IN  IF me.op # "connectTasks" \/ later = {}
        THEN [me EXCEPT !.pc = "done", !.loaded = <<>>]
        ELSE [me EXCEPT !.pc = "load", !.loaded = <<>>,
                        !.stage = StageOrder[CHOOSE k \in later :
                                                \A j \in later : k <= j]]

\* loadWorkstreams resolves
Load(p) ==
    LET me == procs.slot[p] IN
    /\ me.pc = "load"
    /\ procs' = [procs EXCEPT !.slot[p] =
          IF me.op = "createWorkstream"
          THEN [me EXCEPT !.pc = "store",
                          !.loaded = createWorkstream(workstreams, HeldUuids, "W", "")]
          ELSE IF me.op = "connectTasks" /\ me.stage = "top"
          THEN LET si == FindByTask(workstreams, me.a)
                   ti == FindByTask(workstreams, me.b)
               IN  IF si = 0 /\ ti = 0
                   THEN [me EXCEPT !.stage = "create",
                            !.final = NewWorkstream(FreshUuid(workstreams, HeldUuids),
                                                    "", "")]
                   ELSE Advance([me EXCEPT !.final = IF si # 0 THEN workstreams[si]
                                                     ELSE workstreams[ti]])
          ELSE IF me.op = "connectTasks" /\ me.stage = "create"
          THEN [me EXCEPT !.pc = "store", !.loaded = addWorkstream(workstreams, me.final)]
          ELSE [me EXCEPT !.pc = "validate", !.loaded = workstreams]]
    /\ UNCHANGED <<tasks, workstreams, prev, last, view>>

\* loadTasks resolves: validation, then the function's own checks and change
Validate(p) ==
    LET me == procs.slot[p]
        r == Service(me, me.loaded, tasks)
    IN
    /\ me.pc = "validate"
    /\ procs' = [procs EXCEPT !.slot[p] =
          IF r.err # "none" THEN [me EXCEPT !.pc = "done", !.err = r.err, !.loaded = <<>>]
          ELSE IF r.wrote THEN [me EXCEPT !.pc = "store", !.loaded = r.ws]
          ELSE Advance(me)]
    /\ UNCHANGED <<tasks, workstreams, prev, last, view>>

\* storeWorkstreams resolves
Store(p) ==
    LET me == procs.slot[p] IN
    /\ me.pc = "store"
    /\ Bounded(me.loaded)
    /\ workstreams' = me.loaded
    /\ procs' = [procs EXCEPT !.slot[p] = Advance(me)]
    /\ UNCHANGED <<tasks, prev, last, view>>

\* every started handler has returned
Quiesce ==
    /\ \E p \in ProcIds : procs.slot[p].pc = "done"
    /\ \A p \in ProcIds : procs.slot[p].pc \in {"idle", "done"}
    /\ procs' = [procs EXCEPT !.slot = [p \in ProcIds |-> IdleProc]]
    /\ prev' = workstreams
    /\ UNCHANGED <<tasks, workstreams, last, view>>

NextAsync ==
    \/ Quiesce
    \/ \E p \in ProcIds : StartCreateWorkstream(p)
    \/ \E p \in ProcIds : StartAddTaskToWorkstream(p)
    \/ \E p \in ProcIds : StartRemoveTaskFromWorkstream(p)
    \/ \E p \in ProcIds : StartAddDependency(p)
    \/ \E p \in ProcIds : StartRemoveDependency(p)
    \/ \E p \in ProcIds : StartConnectTasks(p)
    \/ \E p \in ProcIds : Load(p)
    \/ \E p \in ProcIds : Validate(p)
    \/ \E p \in ProcIds : Store(p)

SpecAsync == InitAsync /\ [][NextAsync]_vars

\* ------------------------------------------- task deletion while others run
\* removeTask awaits loadTasks, storeTasks and the delete callbacks; the
\* callback handleTaskDeletion awaits loadWorkstreams and storeWorkstreams.
\* tasks.json is loaded, filtered and stored as a whole, like workstreams.json.
DeleteProc(t) ==
    [op |-> "removeTask", uuid |-> NoWs, a |-> t, b |-> NoArg, type |-> NoArg,
     pc |-> "loadTasks", stage |-> "top", loaded |-> <<>>, final |-> NoFinal,
     err |-> "none", loadedTasks |-> {}]

StartRemoveTask(p) ==
    \E t \in tasks :
        /\ procs.calls < MaxCalls
        /\ procs.slot[p].op = "idle"
        /\ procs' = [procs EXCEPT !.calls = @ + 1, !.slot[p] = DeleteProc(t)]
        /\ UNCHANGED <<tasks, workstreams, prev, last, view>>

\* loadTasks resolves; a task that is not stored ends the call
LoadTasks(p) ==
    LET me == procs.slot[p] IN
    /\ me.pc = "loadTasks"
    /\ procs' = [procs EXCEPT !.slot[p] =
          IF me.a \notin tasks
          THEN [me EXCEPT !.pc = "done", !.stage = "absent"]
          ELSE [me EXCEPT !.pc = "storeTasks", !.loadedTasks = tasks]]
    /\ UNCHANGED <<tasks, workstreams, prev, last, view>>

\* storeTasks resolves; the delete callbacks are triggered next
StoreTasks(p) ==
    LET me == procs.slot[p] IN
    /\ me.pc = "storeTasks"
    /\ tasks' = me.loadedTasks \ {me.a}
    /\ procs' = [procs EXCEPT !.slot[p] = [me EXCEPT !.pc = "cleanupLoad"]]
    /\ UNCHANGED <<workstreams, prev, last, view>>

\* handleTaskDeletion: loadWorkstreams resolves and the copy is cleaned
CleanupLoad(p) ==
    LET me == procs.slot[p]
        c == taskCleanup(workstreams, me.a)
    IN
    /\ me.pc = "cleanupLoad"
    /\ procs' = [procs EXCEPT !.slot[p] =
          IF c.stores
          THEN [me EXCEPT !.pc = "store", !.stage = "cleanup",
                          !.loaded = c.nonEmptyWorkstreams]
          ELSE [me EXCEPT !.pc = "done", !.stage = "cleanup"]]
    /\ UNCHANGED <<tasks, workstreams, prev, last, view>>

NextDelete ==
    \/ Quiesce
    \/ \E p \in ProcIds : StartCreateWorkstream(p)
    \/ \E p \in ProcIds : StartAddTaskToWorkstream(p)
    \/ \E p \in ProcIds : StartRemoveTaskFromWorkstream(p)
    \/ \E p \in ProcIds : StartAddDependency(p)
    \/ \E p \in ProcIds : StartRemoveDependency(p)
    \/ \E p \in ProcIds : StartConnectTasks(p)
    \/ \E p \in ProcIds : StartRemoveTask(p)
    \/ \E p \in ProcIds : Load(p)
    \/ \E p \in ProcIds : Validate(p)
    \/ \E p \in ProcIds : Store(p)
    \/ \E p \in ProcIds : LoadTasks(p)
    \/ \E p \in ProcIds : StoreTasks(p)
    \/ \E p \in ProcIds : CleanupLoad(p)

SpecDelete == InitAsync /\ [][NextDelete]_vars

\* ===================================================================
\* Properties
\* ===================================================================
Members(w) == Range(w.tasks)

DepPairs(w) ==
    {<<w.dependencies[k].fromTaskUuid, w.dependencies[k].toTaskUuid>> :
        k \in 1 .. Len(w.dependencies)}

\* the pairs joined by a directed path of 1 .. n+1 edges of R
RECURSIVE Closure(_, _)
Closure(R, n) ==
    IF n = 0 THEN R
    ELSE LET P == Closure(R, n - 1)
         IN  P \cup {<<q[1][1], q[2][2]>> : q \in {pe \in P \X R : pe[1][2] = pe[2][1]}}

HasCycle(R) == \E p \in Closure(R, Cardinality(R)) : p[1] = p[2]

Acyclic(w) == ~HasCycle(DepPairs(w))

\* the elements of old that satisfy Keep, in the order they have in old
KeptIndex(old, Keep(_), k) ==
    CHOOSE i \in 1 .. Len(old) :
        /\ Keep(old[i])
        /\ Cardinality({j \in 1 .. i : Keep(old[j])}) = k

Restriction(old, Keep(_)) ==
    [k \in 1 .. Cardinality({j \in 1 .. Len(old) : Keep(old[j])}) |->
        old[KeptIndex(old, Keep, k)]]

PrevValid == validateWorkstreamTaskReferences(prev, tasks)

\* C1: under the application's gestures (connect, edge deletion, add to
\* workstream, task deletion) every stored workstream's dependency graph is
\* acyclic.
C1_AppKeepsAcyclic ==
    \A i \in 1 .. Len(workstreams) : Acyclic(workstreams[i])

\* C2: every task id is listed by at most one workstream, and at most once.
C2_SingleMembership ==
    \A t \in TaskIds :
        Cardinality({ik \in (1 .. Len(workstreams)) \X (1 .. Cardinality(TaskIds) + 1) :
                        /\ ik[2] <= Len(workstreams[ik[1]].tasks)
                        /\ workstreams[ik[1]].tasks[ik[2]] = t}) <= 1

C2_Witness ==
    /\ last.op \in {"addTaskToWorkstream", "connectTasks"}
    /\ last.err = "TaskAlreadyInOtherWorkstream"
    /\ Len(workstreams) = 2
    /\ workstreams[1].tasks # <<>>
    /\ workstreams[2].tasks # <<>>

\* C3: when addDependency runs only after wouldCreateCycle returned false, every
\* workstream stays acyclic and getTopologicalSort never returns null.
C3_GuardedStaysAcyclic ==
    \A i \in 1 .. Len(workstreams) :
        /\ Acyclic(workstreams[i])
        /\ LET r == getTopologicalSort(workstreams, tasks, workstreams[i].uuid)
           IN  r.err = "none" => r.result # "null"

C3_Witness ==
    /\ last.op = "addDependency"
    /\ last.err = "none"
    /\ \E i \in 1 .. Len(workstreams) :
          /\ workstreams[i].uuid = last.uuid
          /\ Len(workstreams[i].dependencies) = 2
          /\ Len(workstreams[i].tasks) = 3
          /\ \E from \in Members(workstreams[i]), to \in Members(workstreams[i]) :
                /\ from # to
                /\ <<to, from>> \notin DepPairs(workstreams[i])
                /\ wouldCreateCycle(workstreams, tasks, last.uuid, from, to).result
          /\ Len(getTopologicalSort(workstreams, tasks, last.uuid).result) = 3

\* C4: connectTasks with the source in W1 and the target in another workstream
\* W2 succeeds and moves the target into W1.
C4_MovesTarget ==
    LET si == FindByTask(prev, last.a)
        ti == FindByTask(prev, last.b)
    IN  (last.op = "connectTasks" /\ last.a # last.b /\ PrevValid
            /\ si # 0 /\ ti # 0 /\ si # ti)
        => /\ last.err = "none"
           /\ \A j \in 1 .. Len(workstreams) :
                 Includes(workstreams[j].tasks, last.b)
                     <=> workstreams[j].uuid = prev[si].uuid
           /\ \E j \in 1 .. Len(workstreams) :
                 /\ workstreams[j].uuid = prev[si].uuid
                 /\ <<last.a, last.b>> \in DepPairs(workstreams[j])

\* C5: an engine operation that ends with an error leaves the stored
\* collection as it was before the call.
C5_NoPartialApplication ==
    (last.op \in {"addTaskToWorkstream", "removeTaskFromWorkstream",
                  "addDependency", "removeDependency", "connectTasks"}
        /\ last.err # "none")
    => workstreams = prev

\* C6: both endpoints of every dependency are members of the owning workstream.
C6_EndpointsAreMembers ==
    \A i \in 1 .. Len(workstreams) :
        \A k \in 1 .. Len(workstreams[i].dependencies) :
            /\ workstreams[i].dependencies[k].fromTaskUuid \in Members(workstreams[i])
            /\ workstreams[i].dependencies[k].toTaskUuid \in Members(workstreams[i])

C6_Witness ==
    /\ last.op \in {"removeTaskFromWorkstream", "removeTask"}
    /\ \E i \in 1 .. Len(prev) :
          /\ Includes(prev[i].tasks, last.a)
          /\ \E k \in 1 .. Len(prev[i].dependencies) :
                Touches(prev[i].dependencies[k], last.a)
          /\ Len(prev[i].tasks) > 1
    /\ workstreams # prev

\* C7: removeTaskFromWorkstream(W, t) removes t from W's tasks and exactly the
\* dependencies of W touching t; the other members and dependencies keep their
\* order and every other workstream is unchanged.
C7_RemoveTaskCascade ==
    (last.op = "removeTaskFromWorkstream" /\ last.err = "none")
    => LET i == FindByUuid(prev, last.uuid) IN
       /\ i # 0
       /\ Len(workstreams) = Len(prev)
       /\ \A j \in 1 .. Len(prev) : j # i => workstreams[j] = prev[j]
       /\ workstreams[i].uuid = prev[i].uuid
       /\ workstreams[i].title = prev[i].title
       /\ workstreams[i].description = prev[i].description
       /\ workstreams[i].tasks = Restriction(prev[i].tasks, LAMBDA x : x # last.a)
       /\ workstreams[i].dependencies =
              Restriction(prev[i].dependencies,
                          LAMBDA d : d.fromTaskUuid # last.a /\ d.toTaskUuid # last.a)

C7_Witness ==
    /\ last.op = "removeTaskFromWorkstream"
    /\ last.err = "none"
    /\ \E i \in 1 .. Len(prev) :
          /\ prev[i].uuid = last.uuid
          /\ Len(prev[i].tasks) = 3
          /\ Len(prev[i].dependencies) = 2
          /\ prev[i].dependencies[1].toTaskUuid = last.a
          /\ prev[i].dependencies[2].fromTaskUuid = last.a
          /\ prev[i].dependencies[1].fromTaskUuid # prev[i].dependencies[2].toTaskUuid
          /\ Len(workstreams[i].tasks) = 2
          /\ workstreams[i].dependencies = <<>>

\* C8: with exactly one of the two tasks in a workstream W, connectTasks appends
\* the other task to W's tasks and the dependency source->target of the given
\* type to W's dependencies, creates no workstream and changes no other one.
C8_AbsorbsIntoExisting ==
    LET si == FindByTask(prev, last.a)
        ti == FindByTask(prev, last.b)
        i == IF si # 0 THEN si ELSE ti
        other == IF si # 0 THEN last.b ELSE last.a
    IN  (last.op = "connectTasks" /\ last.a # last.b /\ PrevValid
            /\ {last.a, last.b} \subseteq tasks
            /\ ((si # 0 /\ ti = 0) \/ (si = 0 /\ ti # 0)))
        => /\ last.err = "none"
           /\ Len(workstreams) = Len(prev)
           /\ \A j \in 1 .. Len(prev) : j # i => workstreams[j] = prev[j]
           /\ workstreams[i] =
                 [prev[i] EXCEPT
                     !.tasks = Append(@, other),
                     !.dependencies = Append(@, Dep(last.a, last.b, last.type))]

C8_Witness ==
    /\ last.op = "connectTasks"
    /\ last.err = "none"
    /\ last.type = "related"
    /\ Len(prev) = 2
    /\ FindByTask(prev, last.a) = 0
    /\ FindByTask(prev, last.b) = 2
    /\ prev[1].tasks # <<>>
    /\ Len(workstreams[2].dependencies) = 2

Strip(ws) ==
    [i \in 1 .. Len(ws) |->
        [title |-> ws[i].title, description |-> ws[i].description,
         tasks |-> ws[i].tasks, dependencies |-> ws[i].dependencies]]

\* the list stored after one whole operation, run alone on ws
RunAlone(me, ws) ==
    IF me.op = "createWorkstream" THEN createWorkstream(ws, {}, "W", "")
    ELSE IF me.op = "connectTasks"
         THEN connectTasks(ws, tasks, {}, me.a, me.b, me.type).ws
         ELSE Service(me, ws, tasks).ws

\* C10: operations that overlap in time are atomic on the stored collection: once
\* two overlapping operations have both ended, the stored collection is what
\* running them one after the other, in one of the two orders, stores.
C10_OverlapIsSerial ==
    \A p \in ProcIds, q \in ProcIds :
        (/\ p # q
         /\ procs.slot[p].pc = "done"
         /\ procs.slot[q].pc = "done"
         /\ \A o \in ProcIds \ {p, q} : procs.slot[o].pc = "idle")
        => Strip(workstreams) \in
              {Strip(RunAlone(procs.slot[q], RunAlone(procs.slot[p], prev))),
               Strip(RunAlone(procs.slot[p], RunAlone(procs.slot[q], prev)))}

\* C11: for members from, to of W, wouldCreateCycle(W, from, to) returns true
\* exactly when W's stored dependencies plus the edge from->to contain a
\* directed cycle, and the stored collection is what it was before the call.
C11_CycleIffClosure ==
    (last.op = "wouldCreateCycle" /\ last.err = "none")
    => LET w == workstreams[FindByUuid(workstreams, last.uuid)] IN
       /\ workstreams = prev
       /\ ({last.a, last.b} \subseteq Members(w))
          => (last.result <=> HasCycle(DepPairs(w) \cup {<<last.a, last.b>>}))

C11_Witness ==
    /\ last.op = "wouldCreateCycle"
    /\ last.a = "C"
    /\ last.b = "A"
    /\ DepPairs(workstreams[1]) = {<<"A", "B">>, <<"B", "C">>}
    /\ last.result = TRUE

\* C12: getTopologicalSort returns null exactly when the dependencies contain
\* a directed cycle; otherwise the list holds every member exactly once and,
\* for every dependency of either kind, fromTaskUuid comes before toTaskUuid.
C12_SortIsTopological ==
    (last.op = "getTopologicalSort" /\ last.err = "none")
    => LET w == workstreams[FindByUuid(workstreams, last.uuid)]
           order == last.result
       IN  /\ (order = "null") <=> HasCycle(DepPairs(w))
           /\ (order # "null")
              => /\ Len(order) = Len(w.tasks)
                 /\ \A t \in Members(w) :
                       Cardinality({k \in 1 .. Len(order) : order[k] = t}) = 1
                 /\ \A k \in 1 .. Len(w.dependencies) :
                       Position(order, w.dependencies[k].fromTaskUuid)
                           < Position(order, w.dependencies[k].toTaskUuid)

C12_Witness ==
    /\ last.op = "getTopologicalSort"
    /\ DepPairs(workstreams[1]) =
           {<<"A", "B">>, <<"A", "C">>, <<"B", "D">>, <<"C", "D">>}
    /\ \E k \in 1 .. 4 : workstreams[1].dependencies[k].type = "related"
    /\ last.result # "null"
    /\ Position(last.result, "A") = 1
    /\ Position(last.result, "D") = 4

\* ---- layout: the graph the view handed over, read independently of the code
EdgePairs == {<<view.edges[k].source, view.edges[k].target>> : k \in 1 .. Len(view.edges)}

Reach == Closure(EdgePairs, Cardinality(EdgePairs))

Linked == LET U == EdgePairs \cup {<<e[2], e[1]>> : e \in EdgePairs}
          IN  Closure(U, Cardinality(U))

\* the connected component of node n, edge direction ignored
ComponentOf(n) == {n} \cup {m \in Range(view.nodes) : <<n, m>> \in Linked}

\* discovery order: the place of the component's first node in the node list
Discovery(n) ==
    CHOOSE i \in 1 .. Len(view.nodes) :
        /\ view.nodes[i] \in ComponentOf(n)
        /\ \A j \in 1 .. (i - 1) : view.nodes[j] \notin ComponentOf(n)

\* n lies on a directed cycle or downstream of one: Kahn's leveling never emits it
Stuck(n) == \E m \in Range(view.nodes) :
                /\ <<m, m>> \in Reach
                /\ (m = n \/ <<m, n>> \in Reach)

\* the length of the longest directed path ending at n, of at most fuel edges
RECURSIVE LongestPathTo(_, _)
LongestPathTo(n, fuel) ==
    LET preds == {e[1] : e \in {q \in EdgePairs : q[2] = n}}
    IN  IF fuel = 0 \/ preds = {} THEN 0
        ELSE LET lens == {LongestPathTo(m, fuel - 1) : m \in preds}
             IN  1 + CHOOSE l \in lens : \A o \in lens : o <= l

LevelOf(n) == LongestPathTo(n, Len(view.nodes))

LaidOut == view.out.err = "none" /\ view.out # NotLaidOut

\* C13: when a component of two or more nodes has nodes the leveling cannot
\* emit, the call fails with the cycle error, returns no positions, and the
\* error names exactly the unemitted nodes of that component.
C13_CycleErrorNamesLeftover ==
    LET bad == {n \in Range(view.nodes) :
                   Cardinality(ComponentOf(n)) >= 2 /\ Stuck(n)}
    IN  (view.out # NotLaidOut /\ bad # {})
        => LET first == CHOOSE n \in bad : \A m \in bad : Discovery(n) <= Discovery(m)
               leftover == {n \in ComponentOf(first) : Stuck(n)}
           IN  /\ view.out.err = "CycleDetected"
               /\ view.out.positions = <<>>
               /\ Range(view.out.remaining) = leftover
               /\ Len(view.out.remaining) = Cardinality(leftover)

C13_Witness ==
    /\ view.nodes = <<1, 2, 3>>
    /\ EdgePairs = {<<1, 2>>, <<2, 3>>, <<3, 1>>}
    /\ view.out.err = "CycleDetected"
    /\ view.out.remaining = <<1, 2, 3>>

\* C14: in every returned layout the components are stacked top to bottom in
\* discovery order: every node of an earlier component has a strictly smaller
\* y than every node of a later one.
C14_ComponentsDoNotOverlap ==
    LaidOut
    => \A n \in Range(view.nodes), m \in Range(view.nodes) :
           Discovery(n) < Discovery(m)
               => view.out.positions[n].y < view.out.positions[m].y

\* C15: in every returned layout a node's x is its level (the length of the
\* longest directed path ending at it) times the horizontal increment, so
\* x(source) < x(target) for every edge.
C15_XIsLevelTimesIncrement ==
    LaidOut
    => /\ \A n \in Range(view.nodes) :
             view.out.positions[n].x = Half * LevelOf(n) * nodeSpacing
       /\ \A k \in 1 .. Len(view.edges) :
             view.out.positions[view.edges[k].source].x
                 < view.out.positions[view.edges[k].target].x

\* C16: a component whose levels hold one node each is laid out on one line:
\* all its nodes share one y, and the node one level further is exactly one
\* horizontal increment further right.
C16_ChainIsFlat ==
    LaidOut
    => \A n \in Range(view.nodes) :
           (/\ Cardinality(ComponentOf(n)) >= 2
            /\ \A a \in ComponentOf(n), b \in ComponentOf(n) :
                  a # b => LevelOf(a) # LevelOf(b))
           => \A a \in ComponentOf(n), b \in ComponentOf(n) :
                 /\ view.out.positions[a].y = view.out.positions[b].y
                 /\ LevelOf(b) = LevelOf(a) + 1
                    => view.out.positions[b].x - view.out.positions[a].x
                           = Half * nodeSpacing

C16_Witness ==
    /\ LaidOut
    /\ view.nodes = <<1, 2, 3, 4>>
    /\ EdgePairs = {<<2, 3>>, <<3, 4>>}
    /\ view.out.positions[2] = [x |-> 0, y |-> Half * singleNodeHeight]
    /\ view.out.positions[3] = [x |-> Half * nodeSpacing, y |-> Half * singleNodeHeight]
    /\ view.out.positions[4] = [x |-> 2 * Half * nodeSpacing, y |-> Half * singleNodeHeight]

\* C17: after removeTask(t) for a stored task t, t is a member of no workstream
\* and an endpoint of no dependency, no stored workstream has zero tasks, and
\* the workstream-deleted callbacks ran once for each workstream the cleanup
\* removed, and only after the reduced collection had been stored.
C17_RemoveTaskCleansUp ==
    (last.op = "removeTask" /\ last.effects # <<>>)
    => LET t == last.a
           fx == last.effects
           removed == {prev[i].uuid : i \in {j \in 1 .. Len(prev) :
                                                Range(prev[j].tasks) \subseteq {t}}}
       IN  /\ t \notin tasks
           /\ \A i \in 1 .. Len(workstreams) :
                 /\ t \notin Members(workstreams[i])
                 /\ \A k \in 1 .. Len(workstreams[i].dependencies) :
                       ~Touches(workstreams[i].dependencies[k], t)
                 /\ workstreams[i].tasks # <<>>
           /\ \A u \in removed :
                 /\ u \notin StoredUuids
                 /\ Cardinality({k \in 1 .. Len(fx) :
                        fx[k].event = "workstreamDeleted" /\ fx[k].uuid = u}) = 1
           /\ \A k \in 1 .. Len(fx) :
                 fx[k].event = "workstreamDeleted"
                 => /\ fx[k].uuid \in removed
                    /\ \E j \in 1 .. (k - 1) :
                          /\ fx[j].event = "storeWorkstreams"
                          /\ fx[j].ws = workstreams

C17_Witness ==
    /\ last.op = "removeTask"
    /\ Len(prev) = 2
    /\ Len(prev[1].tasks) = 2
    /\ Len(prev[1].dependencies) = 2
    /\ prev[2].tasks = <<last.a>>
    /\ Len(workstreams) = 1
    /\ Len(workstreams[1].tasks) = 2
    /\ Len(last.effects) = 3

\* C18: addTaskToWorkstream(W, t) fails, the store unchanged, exactly when W
\* does not exist or t is a member of another workstream (which the error
\* names); otherwise it succeeds: t is appended to W's tasks when it was no
\* member, the store is unchanged when it was, and nothing else changes.
C18_AddTaskOutcome ==
    (last.op = "addTaskToWorkstream")
    => LET i == FindByUuid(prev, last.uuid)
           others == {prev[j].uuid : j \in {k \in 1 .. Len(prev) :
                         prev[k].uuid # last.uuid /\ last.a \in Members(prev[k])}}
       IN  IF i = 0 \/ others # {}
           THEN /\ last.err # "none"
                /\ workstreams = prev
                /\ i = 0 => last.err = "WorkstreamNotFound"
                /\ i # 0 => (last.err = "TaskAlreadyInOtherWorkstream"
                               /\ last.other \in others)
           ELSE /\ last.err = "none"
                /\ workstreams =
                      IF last.a \in Members(prev[i]) THEN prev
                      ELSE [prev EXCEPT ![i].tasks = Append(@, last.a)]
                /\ Cardinality({k \in 1 .. Len(workstreams[i].tasks) :
                                   workstreams[i].tasks[k] = last.a}) = 1

C18_Witness ==
    /\ last.op = "addTaskToWorkstream"
    /\ last.err = "none"
    /\ Len(prev) = 2
    /\ last.uuid = prev[2].uuid
    /\ Len(prev[2].tasks) = 2
    /\ Includes(prev[2].tasks, last.a)
    /\ prev[1].tasks # <<>>
    /\ workstreams = prev

\* C19: addDependency(W, from, to, kind) fails, the store unchanged, when W
\* does not exist or from or to is no member of W; with both members of W it
\* succeeds and the edge is stored, also when it closes a cycle or from = to.
C19_AddDependencyOutcome ==
    (last.op = "addDependency")
    => LET i == FindByUuid(prev, last.uuid) IN
       IF i = 0 \/ ~({last.a, last.b} \subseteq Members(prev[i]))
       THEN /\ last.err # "none"
            /\ workstreams = prev
       ELSE /\ last.err = "none"
            /\ <<last.a, last.b>> \in DepPairs(workstreams[i])
            /\ DepPairs(workstreams[i]) = DepPairs(prev[i]) \cup {<<last.a, last.b>>}

C19_Witness ==
    /\ last.op = "addDependency"
    /\ last.err = "none"
    /\ last.a # last.b
    /\ workstreams # prev
    /\ \E i \in 1 .. Len(prev) :
          /\ prev[i].uuid = last.uuid
          /\ Acyclic(prev[i])
          /\ ~Acyclic(workstreams[i])

\* C20: a workstream holds at most one dependency per ordered pair; adding a
\* pair it already holds, with the same or another kind, by addDependency or
\* by connectTasks of two distinct tasks, reports no error and leaves the
\* stored collection (the stored kind included) unchanged.
C20_OneDependencyPerPair ==
    /\ \A i \in 1 .. Len(workstreams) :
          Cardinality(DepPairs(workstreams[i])) = Len(workstreams[i].dependencies)
    /\ (last.op = "addDependency" \/ (last.op = "connectTasks" /\ last.a # last.b))
       => LET i == IF last.op = "addDependency" THEN FindByUuid(prev, last.uuid)
                   ELSE FindByTask(prev, last.a)
          IN  (i # 0 /\ <<last.a, last.b>> \in DepPairs(prev[i]))
              => (last.err = "none" /\ workstreams = prev)

C20_Witness ==
    /\ last.op = "addDependency"
    /\ last.err = "none"
    /\ last.type = "related"
    /\ workstreams = prev
    /\ \E i \in 1 .. Len(prev) :
          /\ prev[i].uuid = last.uuid
          /\ Len(prev[i].dependencies) = 2
          /\ Includes(prev[i].dependencies, Dep(last.a, last.b, "blocks"))

\* C21: on a store that passes validation, removeTaskFromWorkstream(W, t) for a
\* task t that is no member of the existing workstream W, and
\* removeDependency(W, a, b) for a pair W does not hold, succeed and leave the
\* stored collection unchanged; removeDependency removes exactly the
\* dependencies a->b (never b->a), keeps the others in order and changes no
\* task list and no other workstream.
C21_RemovalIsIdempotent ==
    LET i == FindByUuid(prev, last.uuid) IN
    /\ (last.op = "removeTaskFromWorkstream" /\ PrevValid /\ i # 0
           /\ last.a \notin Members(prev[i]))
       => (last.err = "none" /\ workstreams = prev)
    /\ (last.op = "removeDependency" /\ PrevValid /\ i # 0)
       => /\ last.err = "none"
          /\ workstreams =
                [prev EXCEPT ![i].dependencies =
                    Restriction(@, LAMBDA d : ~(d.fromTaskUuid = last.a
                                                /\ d.toTaskUuid = last.b))]
          /\ <<last.a, last.b>> \notin DepPairs(prev[i]) => workstreams = prev
          /\ (last.a # last.b /\ <<last.b, last.a>> \in DepPairs(prev[i]))
             => <<last.b, last.a>> \in DepPairs(workstreams[i])

C21_Witness ==
    /\ last.op = "removeDependency"
    /\ last.err = "none"
    /\ last.a # last.b
    /\ workstreams = prev
    /\ \E i \in 1 .. Len(prev) :
          /\ prev[i].uuid = last.uuid
          /\ <<last.b, last.a>> \in DepPairs(prev[i])
          /\ <<last.a, last.b>> \notin DepPairs(prev[i])
          /\ Len(prev[i].dependencies) = 2

\* some workstream of the list refers to a task that is not stored
Dangling(ws, tks) ==
    \E i \in 1 .. Len(ws) :
        \/ ~(Members(ws[i]) \subseteq tks)
        \/ \E p \in DepPairs(ws[i]) : p[1] \notin tks \/ p[2] \notin tks

GatedOps ==
    {"addTaskToWorkstream", "removeTaskFromWorkstream", "addDependency",
     "removeDependency", "wouldCreateCycle", "getTopologicalSort",
     "getDependentTasks", "getDependencyTasks"}

\* C22: a service call fails validation exactly when some stored workstream
\* lists a member or a dependency endpoint that is no stored task, and then the
\* call (mutating function or query) fails and the stored collection is what
\* it was before the call.
C22_ValidationGates ==
    (last.op \in GatedOps)
    => /\ (last.err = "DanglingReference") <=> Dangling(prev, tasks)
       /\ Dangling(prev, tasks) => (last.err # "none" /\ workstreams = prev)

C22_Witness ==
    /\ last.op = "getDependentTasks"
    /\ last.err = "DanglingReference"
    /\ Len(prev) = 2
    /\ Members(prev[1]) \subseteq tasks
    /\ Len(prev[1].dependencies) > 0
    /\ ~(Members(prev[2]) \subseteq tasks)
    /\ last.uuid = prev[1].uuid
    /\ workstreams = prev

C25_CycleSafe ==
    (view.out # NotLaidOut /\ HasCycle(EdgePairs))
    => (view.out.err = "CycleDetected" /\ view.out.positions = <<>>)

\* C26: whatever task ids the engine operations are called with, every member
\* and every dependency endpoint of every stored workstream is a stored task,
\* so the stored collection always passes validation.
C26_ReferencesStayValid ==
    /\ ~Dangling(workstreams, tasks)
    /\ validateWorkstreamTaskReferences(workstreams, tasks)

\* the stored workstreams mention task t as a member or as an endpoint
References(ws, t) ==
    \E i \in 1 .. Len(ws) :
        \/ t \in Members(ws[i])
        \/ \E k \in 1 .. Len(ws[i].dependencies) : Touches(ws[i].dependencies[k], t)

\* C27: once a removeTask(t) that found t, and every operation that ran while
\* it did, have ended, no stored workstream has t as a member or as a
\* dependency endpoint; and whenever another operation can run (at every
\* await) the stored workstreams mention stored tasks only.
C27_NoDanglingAfterDeletion ==
    /\ (\A p \in ProcIds : procs.slot[p].pc \in {"idle", "done"})
       => \A p \in ProcIds :
              (procs.slot[p].op = "removeTask" /\ procs.slot[p].stage = "cleanup")
              => ~References(workstreams, procs.slot[p].a)
    /\ ~Dangling(workstreams, tasks)

\* C28: under every interleaving of the load and store steps of the service
\* operations, connectTasks and the task-deletion cleanup, every stored
\* collection lists a task in at most one workstream (and once), and has both
\* endpoints of every dependency among the members of the owning workstream.
C28_InvariantsUnderInterleaving ==
    /\ \A i \in 1 .. Len(workstreams), j \in 1 .. Len(workstreams) :
          i # j => Members(workstreams[i]) \cap Members(workstreams[j]) = {}
    /\ \A i \in 1 .. Len(workstreams) :
          /\ Cardinality(Members(workstreams[i])) = Len(workstreams[i].tasks)
          /\ \A p \in DepPairs(workstreams[i]) :
                p[1] \in Members(workstreams[i]) /\ p[2] \in Members(workstreams[i])

\* a cleanup and an operation that loaded before the cleanup stored have both
\* ended, and the operation's store has overwritten the cleanup's
C28_Witness ==
    \E p \in ProcIds, q \in ProcIds :
        /\ procs.slot[p].op = "removeTask"
        /\ procs.slot[p].stage = "cleanup"
        /\ procs.slot[p].pc = "done"
        /\ procs.slot[q].op \in {"addDependency", "addTaskToWorkstream"}
        /\ procs.slot[q].pc = "done"
        /\ procs.slot[q].err = "none"
        /\ References(workstreams, procs.slot[p].a)
        /\ \E i \in 1 .. Len(workstreams) : Len(workstreams[i].dependencies) > 0

\* the workstream neither lists task t nor has a dependency touching it
Untouched(w, t) ==
    /\ t \notin Members(w)
    /\ \A k \in 1 .. Len(w.dependencies) : ~Touches(w.dependencies[k], t)

\* C29: the cleanup after removeTask(t) leaves every workstream that neither
\* listed t nor had a dependency touching t in the store, unchanged and in the
\* same relative order, a workstream that had no tasks before included.
C29_CleanupFrame ==
    (last.op = "removeTask")
    => LET kept == SelectSeq(prev, LAMBDA w : Untouched(w, last.a))
       IN  SelectSeq(workstreams, LAMBDA w :
               \E k \in 1 .. Len(kept) : kept[k].uuid = w.uuid) = kept

\* C29 (amended): the cleanup after removeTask(t) of a stored task t leaves
\* every workstream that has at least one task and neither listed t nor had a
\* dependency touching t in the store, unchanged and in the same relative
\* order; every workstream without tasks, one that had none before the
\* deletion included, is removed from the store.
C29_CleanupFrameOfPopulated ==
    (last.op = "removeTask" /\ last.effects # <<>>)
    => LET kept == SelectSeq(prev, LAMBDA w : Untouched(w, last.a) /\ w.tasks # <<>>)
       IN  /\ SelectSeq(workstreams, LAMBDA w :
                   \E k \in 1 .. Len(kept) : kept[k].uuid = w.uuid) = kept
           /\ \A i \in 1 .. Len(prev) :
                 prev[i].tasks = <<>> => prev[i].uuid \notin StoredUuids

C29_Witness ==
    /\ last.op = "removeTask"
    /\ last.effects # <<>>
    /\ Len(prev) = 2
    /\ prev[1].tasks = <<>>
    /\ Len(prev[2].tasks) = 2
    /\ Len(prev[2].dependencies) = 2
    /\ Untouched(prev[2], last.a)
    /\ workstreams = <<prev[2]>>

====
